---- MODULE Spec2Model ----
(***************************************************************************)
(* A model of rsql/db.go of reflex: the cursor table accessors getCursor   *)
(* and setCursor, the events table inserter and getNextEvents, the error   *)
(* classifiers, the instrumented consumer of NewConsumer, and the fetch /  *)
(* consume / advance loop that drives them.                                *)
(*                                                                         *)
(* Strings are sequences of character codes: 0..9 are the digits '0'..'9', *)
(* Letter is a character that is no digit.  A statement sent to the        *)
(* database (an ExecContext or QueryContext call) is one atomic step.      *)
(***************************************************************************)
EXTENDS Integers, Sequences, FiniteSets, TLC

\* ------------------------------------------------------------------ bounds
NumWriters == 2
NumProducers == 2
\* the rows the events table is given in one behaviour
MaxEvents == 3
\* the last tick of the database clock
MaxTime == 2
\* the "limit 1000" of getNextEvents, scaled to the events of the model
BatchLimit == 2
\* the calls made in one behaviour: of setCursor in Spec and SpecAdvance
MaxCalls == 3
\* the Consume calls made in one behaviour
MaxConsumes == 3
\* the error numbers classified: those within CodeSpread of a number the
\* classifiers name
CodeSpread == 3
\* the errors.Wrap layers around a classified error
MaxWrap == 2

Writers == 1..NumWriters
Producers == 1..NumProducers
Committed == 0
ConsumerIDs == {"c1", "c2"}

\* the greatest character code: 0..9 are the digits, a code above 9 a letter
MaxChar == 10
Letter == MaxChar
\* The cursor strings the writers of Spec pass to setCursor: "9", "10" and
\* "x".  "9" and "10" order one way as numbers and the other way as strings.
CursorInputs == {<<9>>, <<1, 0>>, <<Letter>>}

\* ------------------------------------------------------------------ state
VARIABLES
  cursorType,   \* schema.cursorType of the cursors table: "int" or "string"
  ctable,       \* the cursors table: a set of rows [id, cursor, ts]
  now,          \* the database clock
  pc,           \* pc[w]: where writer w stands in setCursor
  call,         \* call[w]: the arguments of w's setCursor call and the cast c
  result,       \* result[w]: what w's setCursor call returned
  ncalls,       \* the calls begun so far
  got,          \* the arguments and the result of the last call of getCursor,
                \* and as history the number of that call
  snap,         \* history: the rows of call[w].id when w's call began
  others,       \* history: the writers whose calls on the same id overlapped
                \* w's call, from its beginning until its result is taken
  metadataField,\* schema.metadataField of the events table: "" is disabled
  etable,       \* the events table: a set of rows [id, foreignID, ts, typ,
                \* md, tx]; tx is the producer whose open transaction holds
                \* the row, Committed once the row is visible to queries
  nextID,       \* the auto-increment counter of the events table
  ins,          \* the metadata argument and the result of the last call of
                \* the inserter
  lp,           \* the stream loop of LoopConsumer: where it stands (pc), the
                \* cursor it read, the batch it fetched and its place in it
  delivered,    \* history: the ids of the events handed to the handler
  failed,       \* history: the id of the event whose consume returned nil
                \* and whose advance did not, until the loop has fetched
                \* again and handed an event to the handler; 0 without one
  rd,           \* the reader: the arguments and the result of its last call
                \* of getNextEvents, and as history the ids above after that
                \* the call could see (above), those of them older than the
                \* lag window (old), the ids its chain of calls returned
                \* (seen) and those the lag window kept from them (held)
  consumer,     \* the consumer NewConsumer built: [lagAlert, activityTTL]
  cn,           \* the Consume call: where it stands (pc), t0, the timestamp
                \* of its event, what the handler did (fn) and what Consume
                \* returned (ret)
  metrics,      \* the metrics of the consumer: lagGauge, lagAlertGauge,
                \* errorCounter, latencyHist (the observations) and active
  nconsumes,    \* the Consume calls begun so far
  gaugeSets,    \* history: the values set into lagAlertGauge, in order
  cerr,         \* the error given to the classifiers: its chain of layers
                \* from the outermost in, empty for nil
  cls           \* what the classifiers returned for cerr, once called

cvars == <<cursorType, ctable, pc, call, result, snap, others>>
evars == <<metadataField, etable, nextID, ins>>
lvars == <<lp, delivered, failed>>
wvars == <<consumer, cn, metrics, nconsumes, gaugeSets>>
kvars == <<cerr, cls>>
vars == <<cvars, ncalls, got, now, evars, rd, lvars, wvars, kvars>>

\* ---------------------------------------------------------------- strings
RECURSIVE ParseDigits(_, _)
ParseDigits(s, acc) ==
  IF s = <<>> THEN acc ELSE ParseDigits(Tail(s), acc * 10 + Head(s))

IsNumeric(s) == s # <<>> /\ \A i \in 1..Len(s) : s[i] \in 0..9

\* strconv.ParseInt(s, 10, 64) of an unsigned digit string
ParseInt(s) == ParseDigits(s, 0)

RECURSIVE FormatInt(_)
\* strconv.FormatInt(n, 10) for n >= 0
FormatInt(n) ==
  IF n < 10 THEN <<n>> ELSE Append(FormatInt(n \div 10), n % 10)

RECURSIVE StrLess(_, _)
\* a < b for two strings under a binary collation
StrLess(a, b) ==
  IF b = <<>> THEN FALSE
  ELSE IF a = <<>> THEN TRUE
  ELSE IF Head(a) # Head(b) THEN Head(a) < Head(b)
  ELSE StrLess(Tail(a), Tail(b))

\* ----------------------------------------------------------- cursors table
\* schema.cursorType.Cast(cursor): the value compared and stored
CastOK(cursor) == cursorType = "string" \/ IsNumeric(cursor)
Cast(cursor) == IF cursorType = "int" THEN ParseInt(cursor) ELSE cursor

\* the comparison "cursorField < ?" of the schema's representation
ColumnLess(a, b) == IF cursorType = "int" THEN a < b ELSE StrLess(a, b)

\* a cursor column scanned into a Go string
ColumnString(v) == IF cursorType = "int" THEN FormatInt(v) ELSE v

RowsOf(id) == {r \in ctable : r.id = id}

\* getCursor: the cursor of the row of id, "" (sql.ErrNoRows) without one
getCursor(id) ==
  IF RowsOf(id) = {} THEN <<>>
  ELSE ColumnString((CHOOSE r \in RowsOf(id) : TRUE).cursor)

\* a caller calls getCursor(id)
GetCursor(id) ==
  /\ got' = [id |-> id, cursor |-> getCursor(id), n |-> ncalls + 1]

NoCall == [id |-> "", cursor |-> <<>>]

InFlight(w) == pc[w] \in {"update", "insert"}

\* setCursor, lines 193-199: the cast of the cursor string
SetCursorCast(w, id, cursor) ==
  /\ pc[w] = "idle"
  /\ call' = [call EXCEPT ![w] = [id |-> id, cursor |-> cursor]]
  /\ snap' = [snap EXCEPT ![w] = RowsOf(id)]
  /\ IF CastOK(cursor)
       THEN /\ pc' = [pc EXCEPT ![w] = "update"]
            /\ UNCHANGED result
       ELSE /\ pc' = [pc EXCEPT ![w] = "done"]
            /\ result' = [result EXCEPT ![w] = "cast error"]
  /\ others' = [v \in Writers |->
                  IF v = w THEN {u \in Writers \ {w} : InFlight(u) /\ call[u].id = id}
                  ELSE IF pc[v] # "idle" /\ call[v].id = id /\ CastOK(cursor)
                         THEN others[v] \cup {w}
                         ELSE others[v]]
  /\ UNCHANGED <<cursorType, ctable>>

\* (mutant) the guard compares for inequality instead of order
UpdateGuardNotEqual(r, id, c) == r.id = id /\ r.cursor # c

\* (mutant) the guard does not name the consumer
UpdateGuardAnyID(r, id, c) == ColumnLess(r.cursor, c)

\* (mutant) the guard admits an equal cursor
UpdateGuardLeq(r, id, c) == r.id = id /\ ~ColumnLess(c, r.cursor)

\* the guard of the update statement: where id=? and cursor<?
UpdateGuard(r, id, c) == r.id = id /\ ColumnLess(r.cursor, c)

\* setCursor, lines 201-216: the guarded update and its affected rows
SetCursorUpdate(w) ==
  /\ pc[w] = "update"
  /\ LET id == call[w].id
         c == Cast(call[w].cursor)
         hit == {r \in ctable : UpdateGuard(r, id, c)}
         rows == Cardinality(hit)
     IN /\ ctable' = (ctable \ hit) \cup
                       {[id |-> r.id, cursor |-> c, ts |-> now] : r \in hit}
        /\ IF rows > 1
             THEN /\ pc' = [pc EXCEPT ![w] = "done"]
                  /\ result' = [result EXCEPT ![w] = "invalid rows affected error"]
             ELSE IF rows = 1
             THEN /\ pc' = [pc EXCEPT ![w] = "done"]
                  /\ result' = [result EXCEPT ![w] = "nil"]
             ELSE /\ pc' = [pc EXCEPT ![w] = "insert"]
                  /\ UNCHANGED result
  /\ UNCHANGED <<cursorType, call, snap, others>>

\* setCursor, lines 205-207: the update statement fails in the database
SetCursorUpdateFails(w) ==
  /\ pc[w] = "update"
  /\ pc' = [pc EXCEPT ![w] = "done"]
  /\ result' = [result EXCEPT ![w] = "set cursor error"]
  /\ UNCHANGED <<cursorType, ctable, call, snap, others>>

\* setCursor, lines 201-210: the update is executed and res.RowsAffected()
\* returns an error
SetCursorRowsAffectedFails(w) ==
  /\ pc[w] = "update"
  /\ LET id == call[w].id
         c == Cast(call[w].cursor)
         hit == {r \in ctable : UpdateGuard(r, id, c)}
     IN ctable' = (ctable \ hit) \cup
                    {[id |-> r.id, cursor |-> c, ts |-> now] : r \in hit}
  /\ pc' = [pc EXCEPT ![w] = "done"]
  /\ result' = [result EXCEPT ![w] = "rows affected error"]
  /\ UNCHANGED <<cursorType, call, snap, others>>

\* (mutant) the insert is forgotten: no row affected counts as done
SetCursorInsertSkipped(w) ==
  /\ pc[w] = "insert"
  /\ result' = [result EXCEPT ![w] = "nil"]
  /\ pc' = [pc EXCEPT ![w] = "done"]
  /\ UNCHANGED <<cursorType, ctable, call, snap, others>>

\* (mutant) the cursors table has no unique key on the id column
SetCursorInsertNoUniqueKey(w) ==
  /\ pc[w] = "insert"
  /\ ctable' = ctable \cup
       {[id |-> call[w].id, cursor |-> Cast(call[w].cursor), ts |-> now]}
  /\ result' = [result EXCEPT ![w] = "nil"]
  /\ pc' = [pc EXCEPT ![w] = "done"]
  /\ UNCHANGED <<cursorType, call, snap, others>>

\* (mutant) a duplicate key on the insert is not reported
SetCursorInsertIgnoresDup(w) ==
  /\ pc[w] = "insert"
  /\ LET id == call[w].id
         c == Cast(call[w].cursor)
     IN IF RowsOf(id) # {}
          THEN UNCHANGED ctable
          ELSE ctable' = ctable \cup {[id |-> id, cursor |-> c, ts |-> now]}
  /\ result' = [result EXCEPT ![w] = "nil"]
  /\ pc' = [pc EXCEPT ![w] = "done"]
  /\ UNCHANGED <<cursorType, call, snap, others>>

\* setCursor, lines 218-227: the insert after an update of no row; the
\* unique key on the id column rejects a second row of the same id (1062)
SetCursorInsert(w) ==
  /\ pc[w] = "insert"
  /\ LET id == call[w].id
         c == Cast(call[w].cursor)
     IN IF RowsOf(id) # {}
          THEN /\ result' = [result EXCEPT ![w] =
                               "attempted to set cursor <= existing cursor"]
               /\ UNCHANGED ctable
          ELSE /\ result' = [result EXCEPT ![w] = "nil"]
               /\ ctable' = ctable \cup {[id |-> id, cursor |-> c, ts |-> now]}
  /\ pc' = [pc EXCEPT ![w] = "done"]
  /\ UNCHANGED <<cursorType, call, snap, others>>

\* setCursor, lines 223-225: the insert statement fails in the database
SetCursorInsertFails(w) ==
  /\ pc[w] = "insert"
  /\ pc' = [pc EXCEPT ![w] = "done"]
  /\ result' = [result EXCEPT ![w] = "insert cursor error"]
  /\ UNCHANGED <<cursorType, ctable, call, snap, others>>

\* the caller takes the result of its setCursor call
SetCursorReturn(w) ==
  /\ pc[w] = "done"
  /\ pc' = [pc EXCEPT ![w] = "idle"]
  /\ call' = [call EXCEPT ![w] = NoCall]
  /\ result' = [result EXCEPT ![w] = ""]
  /\ snap' = [snap EXCEPT ![w] = {}]
  /\ others' = [others EXCEPT ![w] = {}]
  /\ UNCHANGED <<cursorType, ctable>>

\* ------------------------------------------------------------ events table
Nil == "nil"
\* the metadata payloads passed to the inserter: nil and some bytes
MetadataInputs == {Nil, "bytes"}
ForeignIDs == {"f1"}
EventTypes == {1}
\* the lag passed to getNextEvents: disabled, and a window of one tick
Lags == {0, 1}

\* (mutant) the inserter without the check of line 43
InserterUngated(p, foreignID, typ, metadata) ==
  /\ nextID <= MaxEvents
  /\ etable' = etable \cup
       {[id |-> nextID, foreignID |-> foreignID, ts |-> now, typ |-> typ,
         md |-> IF metadataField # "" THEN metadata ELSE Nil, tx |-> p]}
  /\ nextID' = nextID + 1
  /\ ins' = [md |-> metadata, err |-> "nil"]
  /\ UNCHANGED metadataField

\* the inserter of makeDefaultInserter, lines 33-49, in the transaction of
\* producer p: the row takes the next id and the time of the statement
Inserter(p, foreignID, typ, metadata) ==
  IF metadataField = "" /\ metadata # Nil
    THEN /\ ins' = [md |-> metadata, err |-> "metadata not enabled"]
         /\ UNCHANGED <<metadataField, etable, nextID>>
    ELSE /\ nextID <= MaxEvents
         /\ etable' = etable \cup
              {[id |-> nextID, foreignID |-> foreignID, ts |-> now, typ |-> typ,
                md |-> IF metadataField # "" THEN metadata ELSE Nil, tx |-> p]}
         /\ nextID' = nextID + 1
         /\ ins' = [md |-> metadata, err |-> "nil"]
         /\ UNCHANGED metadataField

\* the inserter, lines 47-48: the insert statement fails in the database
InserterFails(metadata) ==
  /\ metadataField # "" \/ metadata = Nil
  /\ ins' = [md |-> metadata, err |-> "insert error"]
  /\ UNCHANGED <<metadataField, etable, nextID>>

\* the caller of the inserter commits its transaction (tx.Commit)
Commit(p) ==
  /\ \E r \in etable : r.tx = p
  /\ etable' = {IF r.tx = p THEN [r EXCEPT !.tx = Committed] ELSE r : r \in etable}
  /\ UNCHANGED <<metadataField, nextID, ins>>

\* the caller of the inserter rolls its transaction back (tx.Rollback):
\* the ids of its rows are not given again
Rollback(p) ==
  /\ \E r \in etable : r.tx = p
  /\ etable' = {r \in etable : r.tx # p}
  /\ UNCHANGED <<metadataField, nextID, ins>>

\* the database clock, now()
Tick ==
  /\ now < MaxTime
  /\ now' = now + 1

Min(a, b) == IF a < b THEN a ELSE b

\* the rows a query sees: those of committed transactions
Visible == {r \in etable : r.tx = Committed}

\* (mutant) where id>=?
WhereAtOrAfter(r, after, lag) ==
  /\ r.id >= after
  /\ lag > 0 => r.ts < now - lag

\* (mutant) the window admits the event that is exactly lag old
WhereLagInclusive(r, after, lag) ==
  /\ r.id > after
  /\ lag > 0 => r.ts <= now - lag

\* getNextEvents, lines 95-102: where id>? [and timeField<now()-lag]
Where(r, after, lag) ==
  /\ r.id > after
  /\ lag > 0 => r.ts < now - lag

RECURSIVE OrderByID(_)
\* getNextEvents, line 104: order by id asc
OrderByID(rows) ==
  IF rows = {} THEN <<>>
  ELSE LET first == CHOOSE r \in rows : \A q \in rows : r.id <= q.id
       IN <<first>> \o OrderByID(rows \ {first})

\* (mutant) the limit is one row short
LimitShort(rows) == SubSeq(rows, 1, Min(Len(rows), BatchLimit - 1))

\* getNextEvents, line 104: limit 1000
Limit(rows) == SubSeq(rows, 1, Min(Len(rows), BatchLimit))

\* scan, lines 56-69: a row of the query as an event; the metadata column
\* is selected as null when the schema has none (lines 89-93)
scan(r) ==
  [ID |-> FormatInt(r.id), ForeignID |-> r.foreignID, Timestamp |-> r.ts,
   Type |-> r.typ, MetaData |-> IF metadataField # "" THEN r.md ELSE Nil]

\* the rows the query of getNextEvents returns, lines 88-106
Query(after, lag) == Limit(OrderByID({r \in Visible : Where(r, after, lag)}))

\* getNextEvents, lines 112-122, when every row is read and scanned
getNextEvents(after, lag) ==
  LET rows == Query(after, lag) IN [i \in 1..Len(rows) |-> scan(rows[i])]

\* the ids of a list of events, as integers
EventIDs(el) == {ParseInt(el[i].ID) : i \in 1..Len(el)}

\* the reader calls getNextEvents(after, lag): its call continues the chain
\* of its calls when after is the last id the call before returned (or the
\* same after, when that call returned nothing)
Continues(after) ==
  IF rd.events = <<>> THEN after = rd.after
  ELSE after = ParseInt(rd.events[Len(rd.events)].ID)

Fetched(after, lag, el, err) ==
  LET above == {r.id : r \in {q \in Visible : q.id > after}}
      aged == {r.id : r \in {q \in Visible : q.id > after /\ q.ts + lag < now}}
  IN rd' = [after |-> after, lag |-> lag, events |-> el, err |-> err,
            above |-> above,
            old |-> aged,
            seen |-> IF Continues(after) THEN rd.seen \cup EventIDs(rd.events)
                     ELSE {},
            held |-> (IF Continues(after) THEN rd.held ELSE {})
                       \cup (IF lag > 0 THEN above \ aged ELSE {})]

\* getNextEvents returns the events and a nil error
Fetch(after, lag) == Fetched(after, lag, getNextEvents(after, lag), "nil")

\* getNextEvents, lines 106-109: the query fails
FetchQueryFails(after, lag) == Fetched(after, lag, <<>>, "query error")

\* getNextEvents, lines 114-117: the scan of a row fails
FetchScanFails(after, lag) ==
  /\ Query(after, lag) # <<>>
  /\ Fetched(after, lag, <<>>, "scan error")

\* getNextEvents, lines 113 and 122: rows.Next() ends the loop after k rows
\* with an error, which rows.Err() returns beside the events read so far
FetchRowsErr(after, lag, k) ==
  /\ k \in 0..Len(Query(after, lag))
  /\ Fetched(after, lag, SubSeq(getNextEvents(after, lag), 1, k), "rows error")

\* -------------------------------------------------------------- stream loop
\* The loop of one consumer: read the cursor, fetch the batch after it, hand
\* each event to the handler in order, and advance the cursor to the id of
\* an event once the handler has returned nil for it; on any error go back
\* to reading the cursor.
LoopConsumer == "c1"
LoopWriter == 1

\* the event the loop is at
LoopEvent == lp.batch[lp.idx]

\* the after of the loop's fetch: the cursor as an id, 0 for the empty cursor
LoopAfter(cursor) == IF cursor = <<>> THEN 0 ELSE ParseInt(cursor)

LoopRestarts == [pc |-> "get", cursor |-> <<>>, batch |-> <<>>, idx |-> 0]

\* get(c)
LoopGet ==
  /\ lp.pc = "get"
  /\ lp' = [lp EXCEPT !.pc = "fetch", !.cursor = getCursor(LoopConsumer)]
  /\ UNCHANGED <<delivered, failed>>

\* nextBatch(after = get(c)), with the lag disabled
LoopFetch ==
  /\ lp.pc = "fetch"
  /\ LET el == getNextEvents(LoopAfter(lp.cursor), 0)
     IN lp' = IF el = <<>> THEN LoopRestarts
              ELSE [lp EXCEPT !.pc = "consume", !.batch = el, !.idx = 1]
  /\ UNCHANGED <<delivered, failed>>

\* consume(e) returns nil
LoopConsume ==
  /\ lp.pc = "consume"
  /\ delivered' = delivered \cup {ParseInt(LoopEvent.ID)}
  /\ failed' = 0
  /\ lp' = [lp EXCEPT !.pc = "advance"]

\* consume(e) returns an error: the loop retries from the cursor
LoopConsumeFails ==
  /\ lp.pc = "consume"
  /\ delivered' = delivered \cup {ParseInt(LoopEvent.ID)}
  /\ failed' = 0
  /\ lp' = LoopRestarts

\* advance(c, e.ID): the loop calls setCursor
LoopAdvance ==
  /\ lp.pc = "advance"
  /\ SetCursorCast(LoopWriter, LoopConsumer, LoopEvent.ID)
  /\ lp' = [lp EXCEPT !.pc = "advancing"]
  /\ UNCHANGED <<delivered, failed>>

\* setCursor has returned: on nil the loop goes on to the next event of the
\* batch, or to the next batch; on an error it retries from the cursor
LoopAdvanced ==
  /\ lp.pc = "advancing"
  /\ SetCursorReturn(LoopWriter)
  /\ IF result[LoopWriter] = "nil"
       THEN /\ lp' = IF lp.idx < Len(lp.batch)
                       THEN [lp EXCEPT !.pc = "consume", !.idx = lp.idx + 1]
                       ELSE LoopRestarts
            /\ UNCHANGED failed
       ELSE /\ lp' = LoopRestarts
            /\ failed' = ParseInt(LoopEvent.ID)
  /\ UNCHANGED delivered

\* the process of the loop stops and is started again: a call of setCursor
\* it was in runs no further statement
LoopCrashes ==
  /\ lp.pc # "get"
  /\ lp' = LoopRestarts
  /\ pc' = [pc EXCEPT ![LoopWriter] = "idle"]
  /\ call' = [call EXCEPT ![LoopWriter] = NoCall]
  /\ result' = [result EXCEPT ![LoopWriter] = ""]
  /\ snap' = [snap EXCEPT ![LoopWriter] = {}]
  /\ others' = [others EXCEPT ![LoopWriter] = {}]
  /\ failed' = IF lp.pc \in {"advance", "advancing"}
                    /\ ~(pc[LoopWriter] = "done" /\ result[LoopWriter] = "nil")
                 THEN ParseInt(LoopEvent.ID)
                 ELSE failed
  /\ UNCHANGED <<cursorType, ctable, delivered>>

\* ---------------------------------------------------------------- consumer
\* durations are counted in ticks of the clock
\* defaultLagAlert (30 minutes): a lag the clock of the model can exceed
defaultLagAlert == MaxTime - 1
\* defaultActivityTTL (24 hours)
defaultActivityTTL == MaxTime + 1
\* the sentinel of WithoutConsumerLag and WithoutConsumerActivityTTL
Disabled == -1

\* the durations given to WithConsumerLagAlert: zero, and one no lag exceeds
LagAlertInputs == {0, MaxTime}
\* the durations given to WithConsumerActivityTTL
ActivityTTLInputs == {1}

WithConsumerLagAlert(d) == [opt |-> "lagAlert", d |-> d]
WithoutConsumerLag == [opt |-> "lagAlert", d |-> Disabled]
WithConsumerActivityTTL(ttl) == [opt |-> "activityTTL", d |-> ttl]
WithoutConsumerActivityTTL == [opt |-> "activityTTL", d |-> Disabled]

ConsumerOptions ==
  {WithConsumerLagAlert(d) : d \in LagAlertInputs} \cup {WithoutConsumerLag}
    \cup {WithConsumerActivityTTL(ttl) : ttl \in ActivityTTLInputs}
    \cup {WithoutConsumerActivityTTL}

\* the lists of options given to NewConsumer
OptionLists ==
  {<<>>} \cup {<<o>> : o \in ConsumerOptions}
    \cup {<<o1, o2>> : o1 \in ConsumerOptions, o2 \in ConsumerOptions}

RECURSIVE ApplyOptions(_, _)
\* NewConsumer, lines 314-316: each option is applied to c in order
ApplyOptions(c, opts) ==
  IF opts = <<>> THEN c
  ELSE ApplyOptions(
         IF Head(opts).opt = "lagAlert"
           THEN [c EXCEPT !.lagAlert = Head(opts).d]
           ELSE [c EXCEPT !.activityTTL = Head(opts).d],
         Tail(opts))

\* NewConsumer, lines 298-321
NewConsumer(opts) ==
  ApplyOptions([lagAlert |-> defaultLagAlert, activityTTL |-> defaultActivityTTL],
               opts)

\* the errors a handler returns
HandlerErrors == {"e1", "e2"}
\* the handler did not return: it panicked
Panic == "panic"

NoConsume == [pc |-> "idle", t0 |-> 0, ts |-> 0, fn |-> "", ret |-> ""]
NoMetrics ==
  [lagGauge |-> 0, lagAlertGauge |-> 0, errorCounter |-> 0,
   latencyHist |-> <<>>, active |-> FALSE]

\* (mutant) the threshold is compared also when it is not positive
AlertIgnoresSentinel(lag) == IF lag > consumer.lagAlert THEN 1 ELSE 0

\* Consume, lines 336-339
Alert(lag) == IF lag > consumer.lagAlert /\ consumer.lagAlert > 0 THEN 1 ELSE 0

\* Consume, lines 329-342, up to the call of the handler, for an event with
\* timestamp ts
ConsumeBegin(ts) ==
  /\ cn.pc = "idle"
  /\ nconsumes < MaxConsumes
  /\ nconsumes' = nconsumes + 1
  /\ LET t0 == now
         lag == t0 - ts
     IN /\ metrics' = [metrics EXCEPT !.active = TRUE, !.lagGauge = lag,
                                      !.lagAlertGauge = Alert(lag)]
        /\ gaugeSets' = Append(gaugeSets, Alert(lag))
        /\ cn' = [pc |-> "fn", t0 |-> t0, ts |-> ts, fn |-> "", ret |-> ""]
  /\ UNCHANGED consumer

\* (mutant) the handler's error is counted but not returned
ConsumeSuppresses(err) ==
  /\ cn.pc = "fn"
  /\ metrics' = [metrics EXCEPT
                   !.errorCounter = IF err # Nil THEN @ + 1 ELSE @,
                   !.latencyHist = Append(@, now - cn.t0)]
  /\ cn' = [cn EXCEPT !.pc = "idle", !.fn = err, !.ret = Nil]
  /\ UNCHANGED <<consumer, nconsumes, gaugeSets>>

\* Consume, lines 342-350: the handler returns err (nil or an error)
ConsumeReturns(err) ==
  /\ cn.pc = "fn"
  /\ metrics' = [metrics EXCEPT
                   !.errorCounter = IF err # Nil THEN @ + 1 ELSE @,
                   !.latencyHist = Append(@, now - cn.t0)]
  /\ cn' = [cn EXCEPT !.pc = "idle", !.fn = err, !.ret = err]
  /\ UNCHANGED <<consumer, nconsumes, gaugeSets>>

\* Consume, line 342: the handler panics and the panic leaves Consume, which
\* has no deferred call: lines 343-350 are not run
ConsumePanics ==
  /\ cn.pc = "fn"
  /\ cn' = [cn EXCEPT !.pc = "idle", !.fn = Panic]
  /\ UNCHANGED <<consumer, metrics, nconsumes, gaugeSets>>

\* --------------------------------------------------------- error classifier
\* An error is the chain errors.As walks: layers [type, Number] from the
\* outermost in.  Number is the uint16 of a *mysql.MySQLError and 0 in the
\* layers of other types.
NilErr == <<>>
WrapLayer == [type |-> "wrap", Number |-> 0]
OtherError == <<[type |-> "other", Number |-> 0]>>
MySQLError(n) == <<[type |-> "MySQLError", Number |-> n]>>

ER_DUP_ENTRY == 1062
ER_OPTION_PREVENTS_STATEMENT == 1290
ER_TABLEACCESS_DENIED_ERROR == 1142
ER_COLUMNACCESS_DENIED_ERROR == 1143
ER_PROCACCESS_DENIED_ERROR == 1370
MaxUint16 == 65535

NamedNumbers ==
  {ER_DUP_ENTRY, ER_OPTION_PREVENTS_STATEMENT, ER_TABLEACCESS_DENIED_ERROR,
   ER_COLUMNACCESS_DENIED_ERROR, ER_PROCACCESS_DENIED_ERROR}

\* the error numbers the model classifies
ErrorNumbers ==
  {0, MaxUint16} \cup
  UNION {(n - CodeSpread)..(n + CodeSpread) : n \in NamedNumbers}

\* errors.Wrap(err, msg): nil stays nil
Wrap(err) == IF err = NilErr THEN NilErr ELSE <<WrapLayer>> \o err

RECURSIVE As(_)
\* errors.As(err, &me): the first *mysql.MySQLError of the chain, as a chain
\* of that one layer; empty when there is none
As(err) ==
  IF err = NilErr THEN NilErr
  ELSE IF Head(err).type = "MySQLError" THEN <<Head(err)>>
  ELSE As(Tail(err))

\* isMySQLErr, lines 159-175
isMySQLErr(err, nums) ==
  IF err = NilErr THEN FALSE
  ELSE IF As(err) = NilErr THEN FALSE
  ELSE \E num \in nums : As(err)[1].Number = num

\* lines 140-142
isMySQLErrDupEntry(err) == isMySQLErr(err, {ER_DUP_ENTRY})

\* lines 146-148
isMySQLErrReadOnly(err) == isMySQLErr(err, {ER_OPTION_PREVENTS_STATEMENT})

\* (mutant) the last number is left out
isMySQLErrNoAccessShort(err) ==
  isMySQLErr(err, {ER_TABLEACCESS_DENIED_ERROR, ER_COLUMNACCESS_DENIED_ERROR})

\* lines 154-156
isMySQLErrNoAccess(err) ==
  isMySQLErr(err, {ER_TABLEACCESS_DENIED_ERROR, ER_COLUMNACCESS_DENIED_ERROR,
                   ER_PROCACCESS_DENIED_ERROR})

\* lines 136-138
isMySQLErrCantWrite(err) == isMySQLErrReadOnly(err) \/ isMySQLErrNoAccess(err)

NotClassified == [called |-> FALSE, cantWrite |-> FALSE, dupEntry |-> FALSE]

\* a caller wraps the error it holds before it hands it on
WrapsError ==
  /\ Len(cerr) <= MaxWrap
  /\ cerr' = Wrap(cerr)
  /\ cls' = NotClassified

\* a caller asks both classifiers about the error it holds
Classifies ==
  /\ ~cls.called
  /\ cls' = [called |-> TRUE, cantWrite |-> isMySQLErrCantWrite(cerr),
             dupEntry |-> isMySQLErrDupEntry(cerr)]
  /\ UNCHANGED cerr

\* ------------------------------------------------------------ specification
\* the state before any call: empty tables, nobody in a call
Start ==
  /\ ctable = {}
  /\ now = 0
  /\ pc = [w \in Writers |-> "idle"]
  /\ ncalls = 0
  /\ got = [id |-> "", cursor |-> <<>>, n |-> 0]
  /\ call = [w \in Writers |-> NoCall]
  /\ result = [w \in Writers |-> ""]
  /\ snap = [w \in Writers |-> {}]
  /\ others = [w \in Writers |-> {}]
  /\ etable = {}
  /\ nextID = 1
  /\ ins = [md |-> Nil, err |-> ""]
  /\ rd = [after |-> 0, lag |-> 0, events |-> <<>>, err |-> "", above |-> {},
           old |-> {}, seen |-> {}, held |-> {}]
  /\ lp = LoopRestarts
  /\ delivered = {}
  /\ failed = 0
  /\ cn = NoConsume
  /\ metrics = NoMetrics
  /\ nconsumes = 0
  /\ gaugeSets = <<>>
  /\ cls = NotClassified

Init ==
  /\ Start
  /\ cerr = NilErr
  /\ cursorType \in {"int", "string"}
  /\ metadataField = ""
  /\ consumer = NewConsumer(<<>>)

\* a writer begins one of the MaxCalls calls of setCursor of a behaviour
WriterCalls(w, id, cursor) ==
  /\ ncalls < MaxCalls
  /\ ncalls' = ncalls + 1
  /\ SetCursorCast(w, id, cursor)

\* the parts of the state a step of one part leaves alone
CursorsOnly == UNCHANGED <<got, now, evars, rd, lvars, wvars, kvars>>
EventsOnly == UNCHANGED <<cvars, ncalls, got, now, rd, lvars, wvars, kvars>>
ReaderOnly == UNCHANGED <<cvars, ncalls, got, now, evars, lvars, wvars, kvars>>
LoopOnly == UNCHANGED <<cvars, ncalls, got, now, evars, rd, wvars, kvars>>
LoopAndCursors == UNCHANGED <<ncalls, got, now, evars, rd, wvars, kvars>>
ConsumerOnly == UNCHANGED <<cvars, ncalls, got, now, evars, rd, lvars, kvars>>
ClockOnly == UNCHANGED <<cvars, ncalls, got, evars, rd, lvars, wvars, kvars>>
ClassifierOnly == UNCHANGED <<cvars, ncalls, got, now, evars, rd, lvars, wvars>>

\* one more of the calls of a behaviour begins
Begins(max) ==
  /\ ncalls < max
  /\ ncalls' = ncalls + 1

\* Spec: writers calling setCursor concurrently
Next ==
  \/ \E w \in Writers, id \in ConsumerIDs, cursor \in CursorInputs :
       WriterCalls(w, id, cursor) /\ CursorsOnly
  \/ \E w \in Writers : SetCursorUpdate(w) /\ UNCHANGED ncalls /\ CursorsOnly
  \/ \E w \in Writers : SetCursorUpdateFails(w) /\ UNCHANGED ncalls /\ CursorsOnly
  \/ \E w \in Writers : SetCursorInsert(w) /\ UNCHANGED ncalls /\ CursorsOnly
  \/ \E w \in Writers : SetCursorInsertFails(w) /\ UNCHANGED ncalls /\ CursorsOnly
  \/ \E w \in Writers : SetCursorReturn(w) /\ UNCHANGED ncalls /\ CursorsOnly

Spec == Init /\ [][Next]_vars

\* SpecFetch: producers appending rows in transactions they commit or roll
\* back later, while a reader calls getNextEvents with any after and lag
InitFetch ==
  /\ Init
  /\ cursorType = "int"

\* SpecAdvance: writers calling setCursor concurrently on int cursors, with
\* every way a call ends, the error of res.RowsAffected() included
NextAdvance ==
  \/ \E w \in Writers, id \in ConsumerIDs, cursor \in CursorInputs :
       WriterCalls(w, id, cursor) /\ CursorsOnly
  \/ \E w \in Writers : SetCursorUpdate(w) /\ UNCHANGED ncalls /\ CursorsOnly
  \/ \E w \in Writers : SetCursorUpdateFails(w) /\ UNCHANGED ncalls /\ CursorsOnly
  \/ \E w \in Writers :
       SetCursorRowsAffectedFails(w) /\ UNCHANGED ncalls /\ CursorsOnly
  \/ \E w \in Writers : SetCursorInsert(w) /\ UNCHANGED ncalls /\ CursorsOnly
  \/ \E w \in Writers : SetCursorInsertFails(w) /\ UNCHANGED ncalls /\ CursorsOnly
  \/ \E w \in Writers : SetCursorReturn(w) /\ UNCHANGED ncalls /\ CursorsOnly

SpecAdvance == InitFetch /\ [][NextAdvance]_vars

\* SpecIndependent: MaxCalls calls in all of setCursor, getCursor, the
\* inserter and getNextEvents after the cursor getCursor returned last, on
\* int cursors, for two consumers
NextIndependent ==
  \/ \E w \in Writers, id \in ConsumerIDs, cursor \in CursorInputs :
       /\ Begins(MaxCalls)
       /\ SetCursorCast(w, id, cursor)
       /\ CursorsOnly
  \/ \E w \in Writers : SetCursorUpdate(w) /\ UNCHANGED ncalls /\ CursorsOnly
  \/ \E w \in Writers : SetCursorUpdateFails(w) /\ UNCHANGED ncalls /\ CursorsOnly
  \/ \E w \in Writers :
       SetCursorRowsAffectedFails(w) /\ UNCHANGED ncalls /\ CursorsOnly
  \/ \E w \in Writers : SetCursorInsert(w) /\ UNCHANGED ncalls /\ CursorsOnly
  \/ \E w \in Writers : SetCursorInsertFails(w) /\ UNCHANGED ncalls /\ CursorsOnly
  \/ \E w \in Writers : SetCursorReturn(w) /\ UNCHANGED ncalls /\ CursorsOnly
  \/ \E id \in ConsumerIDs :
       /\ Begins(MaxCalls)
       /\ GetCursor(id)
       /\ UNCHANGED <<cvars, now, evars, rd, lvars, wvars, kvars>>
  \/ \E lag \in Lags :
       /\ Begins(MaxCalls)
       /\ Fetch(IF got.cursor = <<>> THEN 0 ELSE ParseInt(got.cursor), lag)
       /\ UNCHANGED <<cvars, got, now, evars, lvars, wvars, kvars>>
  \/ \E p \in Producers, f \in ForeignIDs, t \in EventTypes :
       /\ Begins(MaxCalls)
       /\ Inserter(p, f, t, Nil)
       /\ UNCHANGED <<cvars, got, now, rd, lvars, wvars, kvars>>
  \/ \E p \in Producers : Commit(p) /\ EventsOnly

SpecIndependent == InitFetch /\ [][NextIndependent]_vars

NextFetch ==
  \/ \E p \in Producers, f \in ForeignIDs, t \in EventTypes :
       Inserter(p, f, t, Nil) /\ EventsOnly
  \/ \E p \in Producers : Commit(p) /\ EventsOnly
  \/ \E p \in Producers : Rollback(p) /\ EventsOnly
  \/ \E after \in 0..MaxEvents, lag \in Lags : Fetch(after, lag) /\ ReaderOnly
  \/ Tick /\ ClockOnly

SpecFetch == InitFetch /\ [][NextFetch]_vars

\* SpecScan: as SpecFetch without the lag, with the calls of getNextEvents
\* that return an error
NextScan ==
  \/ \E p \in Producers, f \in ForeignIDs, t \in EventTypes :
       Inserter(p, f, t, Nil) /\ EventsOnly
  \/ \E p \in Producers : Commit(p) /\ EventsOnly
  \/ \E p \in Producers : Rollback(p) /\ EventsOnly
  \/ \E after \in 0..MaxEvents : Fetch(after, 0) /\ ReaderOnly
  \/ \E after \in 0..MaxEvents : FetchQueryFails(after, 0) /\ ReaderOnly
  \/ \E after \in 0..MaxEvents : FetchScanFails(after, 0) /\ ReaderOnly
  \/ \E after \in 0..MaxEvents, k \in 0..BatchLimit :
       FetchRowsErr(after, 0, k) /\ ReaderOnly

SpecScan == InitFetch /\ [][NextScan]_vars

\* SpecLoop: producers appending rows in transactions while the stream loop
\* of one consumer runs
NextLoop ==
  \/ \E p \in Producers, f \in ForeignIDs, t \in EventTypes :
       Inserter(p, f, t, Nil) /\ EventsOnly
  \/ \E p \in Producers : Commit(p) /\ EventsOnly
  \/ \E p \in Producers : Rollback(p) /\ EventsOnly
  \/ LoopGet /\ LoopOnly
  \/ LoopFetch /\ LoopOnly
  \/ LoopConsume /\ LoopOnly
  \/ LoopConsumeFails /\ LoopOnly
  \/ LoopAdvance /\ LoopAndCursors
  \/ SetCursorUpdate(LoopWriter) /\ UNCHANGED lvars /\ LoopAndCursors
  \/ SetCursorUpdateFails(LoopWriter) /\ UNCHANGED lvars /\ LoopAndCursors
  \/ SetCursorInsert(LoopWriter) /\ UNCHANGED lvars /\ LoopAndCursors
  \/ SetCursorInsertFails(LoopWriter) /\ UNCHANGED lvars /\ LoopAndCursors
  \/ LoopAdvanced /\ LoopAndCursors
  \/ LoopCrashes /\ LoopAndCursors

SpecLoop == InitFetch /\ [][NextLoop]_vars

\* SpecInsert: callers of the inserter, for both schemas of the events table
InitInsert ==
  /\ Start
  /\ cursorType = "int"
  /\ metadataField \in {"", "metadata"}
  /\ consumer = NewConsumer(<<>>)
  /\ cerr = NilErr

NextInsert ==
  \/ \E p \in Producers, f \in ForeignIDs, t \in EventTypes, md \in MetadataInputs :
       Inserter(p, f, t, md) /\ EventsOnly
  \/ \E md \in MetadataInputs : InserterFails(md) /\ EventsOnly
  \/ \E p \in Producers : Commit(p) /\ EventsOnly
  \/ \E p \in Producers : Rollback(p) /\ EventsOnly

SpecInsert == InitInsert /\ [][NextInsert]_vars

\* SpecConsume: Consume called on a consumer built with any options, for
\* events of any timestamp, while the clock runs
InitConsume ==
  /\ Start
  /\ cursorType = "int"
  /\ metadataField = ""
  /\ \E opts \in OptionLists : consumer = NewConsumer(opts)
  /\ cerr = NilErr

NextConsume ==
  \/ \E ts \in 0..MaxTime : ConsumeBegin(ts) /\ ConsumerOnly
  \/ \E err \in HandlerErrors \cup {Nil} : ConsumeReturns(err) /\ ConsumerOnly
  \/ ConsumePanics /\ ConsumerOnly
  \/ Tick /\ ClockOnly

SpecConsume == InitConsume /\ [][NextConsume]_vars

\* SpecClassify: the classifiers called on nil, on an error of another type
\* and on a MySQLError of each number, bare or wrapped
InitClassify ==
  /\ Start
  /\ cursorType = "int"
  /\ metadataField = ""
  /\ consumer = NewConsumer(<<>>)
  /\ cerr \in {NilErr, OtherError} \cup {MySQLError(n) : n \in ErrorNumbers}

NextClassify ==
  \/ WrapsError /\ ClassifierOnly
  \/ Classifies /\ ClassifierOnly

SpecClassify == InitClassify /\ [][NextClassify]_vars

\* ------------------------------------------------- properties of setCursor
CursorRegression == "attempted to set cursor <= existing cursor"
StorageErrors == {"set cursor error", "insert cursor error"}

\* writer w's call has returned and its statements were executed
Returned(w) ==
  /\ pc[w] = "done"
  /\ CastOK(call[w].cursor)
  /\ result[w] \notin StorageErrors

\* the row of w's consumer stored a cursor >= the one w passed when w called
CalledAtOrBelow(w) ==
  /\ snap[w] # {}
  /\ \A r \in snap[w] : ~ColumnLess(r.cursor, Cast(call[w].cursor))

\* the row of w's consumer was absent or stored a cursor < the one w passed
CalledAbove(w) ==
  \A r \in snap[w] : ColumnLess(r.cursor, Cast(call[w].cursor))

\* C1: in every step, whatever the interleaving of the writers' update and
\* insert statements, every row of the cursors table is still there and its
\* cursor has not decreased under the schema's comparison.
CursorMonotonic ==
  [][\A r \in ctable :
       \E q \in ctable' : q.id = r.id /\ ~ColumnLess(q.cursor, r.cursor)]_vars

\* a call that overlapped another writer's call on the same consumer has
\* moved a stored cursor forward
CursorMonotonicWitness ==
  \E w \in Writers :
    /\ Returned(w) /\ result[w] = "nil"
    /\ snap[w] # {} /\ others[w] # {}
    /\ \A r \in RowsOf(call[w].id) : r.cursor = Cast(call[w].cursor)

\* C2: a call made alone with a cursor <= the stored one (the equal one
\* included) returns the duplicate-key error of the insert, and the row is
\* what it was, so getCursor returns the same cursor as before the call.
RegressionRejected ==
  \A w \in Writers :
    (Returned(w) /\ others[w] = {} /\ CalledAtOrBelow(w)) =>
      /\ result[w] = CursorRegression
      /\ RowsOf(call[w].id) = snap[w]
      /\ \A r \in snap[w] : getCursor(call[w].id) = ColumnString(r.cursor)

RegressionRejectedWitness ==
  \E w \in Writers :
    /\ Returned(w) /\ others[w] = {} /\ CalledAtOrBelow(w)
    /\ result[w] = CursorRegression
    /\ \E r \in snap[w] : ColumnLess(Cast(call[w].cursor), r.cursor)

\* C3: getCursor of a consumer without a row returns the empty cursor, and a
\* call made alone for a consumer without a row returns nil and leaves a row
\* from which getCursor returns the cursor passed.
FirstAdvanceCreatesRow ==
  /\ \A id \in ConsumerIDs : RowsOf(id) = {} => getCursor(id) = <<>>
  /\ \A w \in Writers :
       (Returned(w) /\ others[w] = {} /\ snap[w] = {}) =>
         /\ result[w] = "nil"
         /\ Cardinality(RowsOf(call[w].id)) = 1
         /\ getCursor(call[w].id) = call[w].cursor

FirstAdvanceCreatesRowWitness ==
  \E w \in Writers :
    /\ Returned(w) /\ others[w] = {} /\ snap[w] = {}
    /\ result[w] = "nil"
    /\ getCursor(call[w].id) = call[w].cursor
    /\ \E id \in ConsumerIDs : RowsOf(id) = {} /\ getCursor(id) = <<>>

\* C4: whenever a call returns the duplicate-key error, whose message is
\* "attempted to set cursor <= existing cursor", the row of its consumer
\* stores a cursor >= the one the call passed.
RegressionMeansNotAbove ==
  \A w \in Writers :
    (pc[w] = "done" /\ result[w] = CursorRegression) =>
      \E r \in RowsOf(call[w].id) : ~ColumnLess(r.cursor, Cast(call[w].cursor))

\* C5: two calls that overlap each other and no third call, for the same
\* consumer and with the same cursor, begun with the row absent or storing a
\* smaller cursor: one returns nil, the other the duplicate-key error, and
\* the row stores the cursor.
RacePair(w1, w2) ==
  /\ w1 # w2
  /\ Returned(w1) /\ Returned(w2)
  /\ call[w1] = call[w2]
  /\ others[w1] = {w2} /\ others[w2] = {w1}
  /\ CalledAbove(w1) /\ CalledAbove(w2)

RaceOneWins ==
  \A w1, w2 \in Writers :
    RacePair(w1, w2) =>
      /\ {result[w1], result[w2]} = {"nil", CursorRegression}
      /\ \E r \in RowsOf(call[w1].id) : r.cursor = Cast(call[w1].cursor)

\* the race over a row that stored a smaller cursor, and the race that
\* reaches the insert twice
RaceOneWinsWitness ==
  \E w1, w2 \in Writers :
    /\ RacePair(w1, w2)
    /\ snap[w1] # {}
    /\ result[w1] = "nil" /\ result[w2] = CursorRegression


\* the step in which writer w's call ends with an error
EndsInError(w) == pc[w] # "done" /\ pc'[w] = "done" /\ result'[w] # "nil"

\* C16: the step in which a call of setCursor ends with an error leaves the
\* rows of the call's consumer as they were, and so did the update of that
\* call when it went on to the insert: a call that returns an error has not
\* changed the stored cursor.
NoPartialAdvance ==
  [][\A w \in Writers :
       /\ EndsInError(w) =>
            {r \in ctable' : r.id = call'[w].id} = {r \in ctable : r.id = call'[w].id}
       /\ (pc[w] = "update" /\ pc'[w] = "insert") => ctable' = ctable]_vars

\* C17: the cursors table never holds two rows of one consumer id, and no
\* call of setCursor ends in the branch of more than one affected row.
SingleCursorRow ==
  /\ \A id \in ConsumerIDs : Cardinality(RowsOf(id)) <= 1
  /\ \A w \in Writers : result[w] # "invalid rows affected error"

\* two calls that overlapped have both run their insert for one consumer,
\* which has its one row, and the other consumer has a row as well
SingleCursorRowWitness ==
  /\ \A id \in ConsumerIDs : Cardinality(RowsOf(id)) = 1
  /\ \E w1, w2 \in Writers :
       /\ w1 # w2 /\ call[w1].id = call[w2].id
       /\ pc[w1] = "done" /\ pc[w2] = "done"
       /\ snap[w1] = {} /\ snap[w2] = {}
       /\ result[w1] = "nil" /\ result[w2] = CursorRegression

\* the rows of the cursors table of the consumers other than id
RowsOfOthers(t, id) == {r \in t : r.id # id}

\* C19: a step that changes the cursors table is a statement of a call of
\* setCursor and leaves the rows of every consumer other than the call's as
\* they were; no step of setCursor changes the events table; and the steps
\* of getCursor and of getNextEvents change neither table.
ConsumersIndependent ==
  [][/\ ctable' # ctable =>
          \E w \in Writers :
            /\ InFlight(w) /\ pc'[w] # pc[w]
            /\ RowsOfOthers(ctable', call[w].id) = RowsOfOthers(ctable, call[w].id)
     /\ (pc' # pc \/ got' # got \/ rd' # rd) =>
          etable' = etable /\ nextID' = nextID
     /\ (got' # got \/ rd' # rd) => ctable' = ctable]_vars

\* with an event in the table and a row of c2, a call for c1 has created the
\* row of c1 with another cursor
ConsumersIndependentWitness ==
  /\ etable # {}
  /\ RowsOf("c2") # {}
  /\ \E w \in Writers :
       /\ pc[w] = "done" /\ call[w].id = "c1" /\ result[w] = "nil"
       /\ getCursor("c2") # call[w].cursor

\* --------------------------------------------- properties of getNextEvents
\* the ids of the events the reader's last call returned, in their order
ReturnedIDs == [i \in 1..Len(rd.events) |-> ParseInt(rd.events[i].ID)]

\* C6: a call of getNextEvents returns only events with an id > after, in
\* strictly ascending order of id; and a call whose after is the last id the
\* call before returned returns no id an earlier call of that chain returned,
\* whatever was inserted, committed or rolled back between the calls.
MonotonicFetch ==
  /\ \A i \in 1..Len(rd.events) : ReturnedIDs[i] > rd.after
  /\ \A i, j \in 1..Len(rd.events) : i < j => ReturnedIDs[i] < ReturnedIDs[j]
  /\ EventIDs(rd.events) \cap rd.seen = {}

\* a call that continues a chain returns an event, while a row with an id
\* below the ids of the chain, inserted by a transaction that was open
\* during the chain, is in the table
MonotonicFetchWitness ==
  /\ rd.events # <<>>
  /\ rd.seen # {}
  /\ rd.after \in rd.seen
  /\ \E r \in etable : r.id < rd.after /\ r.id \notin rd.seen

\* C7: with the lag disabled, getNextEvents returns min(BatchLimit, k)
\* events, k the number of visible rows with an id > after, and they are the
\* rows with the lowest such ids: no id above after that is below a returned
\* id is left out.
BatchCap ==
  (rd.err = "nil" /\ rd.lag = 0) =>
    /\ Len(rd.events) = Min(BatchLimit, Cardinality(rd.above))
    /\ EventIDs(rd.events) =
         {a \in rd.above : Cardinality({b \in rd.above : b < a}) < BatchLimit}

\* more rows than the limit were visible above after
BatchCapWitness ==
  /\ rd.err = "nil" /\ rd.lag = 0
  /\ Cardinality(rd.above) > BatchLimit
  /\ Len(rd.events) = BatchLimit

\* C15: whenever getNextEvents returns a non-nil error, from the query, from
\* the scan of a row or from the iteration of the rows, it returns no event
\* with it.
FailsAtomically ==
  rd.err \notin {"", "nil"} => rd.events = <<>>

\* the place the reader's chain of calls has reached: the last id returned
ChainPos ==
  IF rd.events = <<>> THEN rd.after ELSE ReturnedIDs[Len(rd.events)]

\* the lowest BatchLimit ids of a set of ids
Lowest(ids) == {a \in ids : Cardinality({b \in ids : b < a}) < BatchLimit}

\* C14 as stated: a call with a lag returns every visible event above after
\* that is older than the window, and no other.
LagWindowReturnsAllOlder ==
  (rd.err = "nil" /\ rd.lag > 0) => EventIDs(rd.events) = rd.old

\* C14: a call with a lag returns no event whose timestamp is not older than
\* now - lag, and of the visible events above after that are older the
\* BatchLimit with the lowest ids; when each call continues from the last id
\* of the call before, an event the window held back is not passed over, so
\* it is returned by the call at which it has aged and is among those
\* lowest ids, and no call returns an id an earlier call of the chain did.
LagWindow ==
  /\ (rd.err = "nil" /\ rd.lag > 0) =>
       /\ EventIDs(rd.events) \cap (rd.above \ rd.old) = {}
       /\ EventIDs(rd.events) = Lowest(rd.old)
  /\ \A id \in rd.held :
       id <= ChainPos => id \in rd.seen \cup EventIDs(rd.events)
  /\ EventIDs(rd.events) \cap rd.seen = {}

\* a call of the chain returns an event the window held back from an earlier
\* call, while a younger event with another timestamp is held back
LagWindowWitness ==
  /\ rd.err = "nil" /\ rd.lag > 0
  /\ \E i \in 1..Len(rd.events) :
       /\ ReturnedIDs[i] \in rd.held
       /\ \E r \in Visible :
            /\ r.id \in rd.above \ rd.old
            /\ r.ts # rd.events[i].Timestamp

\* ------------------------------------------------ properties of the inserter
\* C10: a call of the inserter with a schema without metadata field and a
\* non-nil metadata returns an error and leaves the events table as it is;
\* a call that returns nil, which a call with nil metadata or with a schema
\* that has the field does unless its statement fails, has appended one row.
MetadataGating ==
  [][(ins' # ins \/ nextID' # nextID) =>
       /\ (metadataField = "" /\ ins'.md # Nil) =>
            /\ ins'.err = "metadata not enabled"
            /\ etable' = etable /\ nextID' = nextID
       /\ (metadataField # "" \/ ins'.md = Nil) =>
            ins'.err \in {"nil", "insert error"}
       /\ ins'.err = "nil" =>
            \E r \in etable' \ etable :
              /\ etable' = etable \cup {r}
              /\ \A q \in etable : q.id < r.id
              /\ r.md = (IF metadataField # "" THEN ins'.md ELSE Nil)
       /\ ins'.err # "nil" => etable' = etable]_vars

\* with the field disabled a payload was rejected after a row was inserted
MetadataGatingWitness ==
  /\ metadataField = ""
  /\ ins.md # Nil /\ ins.err = "metadata not enabled"
  /\ etable # {}

\* ------------------------------------------------ properties of the loop
\* the cursor of the loop's consumer is at or above id
CursorAtOrAbove(id) == \E c \in RowsOf(LoopConsumer) : c.cursor >= id

\* C8: no committed event is skipped: the stored cursor of the consumer is
\* never at or above the id of a committed event that was not handed to the
\* consumer's handler.
NeverSkipped ==
  \A r \in Visible : CursorAtOrAbove(r.id) => r.id \in delivered

\* C9: after consume(e) returned nil and advance(c, e.ID) did not, the
\* stored cursor is below e.ID, and the next batch the loop fetches from the
\* stored cursor hands it e first.
RedeliveredFirst ==
  failed # 0 =>
    /\ ~CursorAtOrAbove(failed)
    /\ (lp.pc = "consume" /\ lp.idx = 1) => ParseInt(LoopEvent.ID) = failed

\* ------------------------------------------------ properties of the consumer
\* the step in which the handler returns and Consume returns after it
HandlerReturned == cn.pc = "fn" /\ cn'.pc = "idle" /\ cn'.fn # Panic

\* C11: in the step in which the handler returns, Consume returns the value
\* the handler returned and the error counter grows by one when that value
\* is an error and stays when it is nil; no other step changes the counter.
\* This for every consumer the options build and every lag of the event.
WrapperNeverSuppresses ==
  [][/\ HandlerReturned =>
          /\ cn'.ret = cn'.fn
          /\ metrics'.errorCounter =
               metrics.errorCounter + (IF cn'.fn \in HandlerErrors THEN 1 ELSE 0)
     /\ ~HandlerReturned => metrics'.errorCounter = metrics.errorCounter]_vars

\* a consumer with the alert disabled has returned its handler's error for
\* an event that lagged, after a call that returned nil
WrapperNeverSuppressesWitness ==
  /\ consumer.lagAlert = Disabled
  /\ cn.pc = "idle" /\ cn.ret \in HandlerErrors
  /\ metrics.lagGauge > 0
  /\ metrics.errorCounter = 1
  /\ Len(metrics.latencyHist) = 2

\* C12: once control has left Consume, every call begun has recorded one
\* latency observation, however its handler ended.
LatencyOnEveryExit ==
  cn.pc = "idle" => Len(metrics.latencyHist) = nconsumes

\* C18: from the moment Consume calls the handler, the alert gauge is 1 when
\* the threshold is positive and the lag of the event of the last call, t0
\* minus its timestamp, is above the threshold, and 0 otherwise; before the
\* first call it is 0.  So a consumer whose threshold is not positive never
\* shows 1, and a call for an event within the threshold resets the gauge.
LagAlertGauge ==
  /\ nconsumes = 0 => metrics.lagAlertGauge = 0
  /\ nconsumes > 0 =>
       metrics.lagAlertGauge =
         (IF consumer.lagAlert > 0 /\ cn.t0 - cn.ts > consumer.lagAlert
            THEN 1 ELSE 0)
  /\ consumer.lagAlert <= 0 => \A i \in 1..Len(gaugeSets) : gaugeSets[i] = 0
  /\ gaugeSets # <<>> => metrics.lagAlertGauge = gaugeSets[Len(gaugeSets)]

\* the gauge was raised by a lagging event and reset by the next one, whose
\* handler is running
LagAlertGaugeWitness ==
  /\ cn.pc = "fn"
  /\ metrics.lagAlertGauge = 0
  /\ Len(gaugeSets) >= 2
  /\ gaugeSets[Len(gaugeSets) - 1] = 1

\* ----------------------------------------------- properties of the classifier
\* the error carries storage code n: its innermost layer is a MySQLError of
\* that number
Carries(n) ==
  /\ cerr # <<>>
  /\ cerr[Len(cerr)].type = "MySQLError"
  /\ cerr[Len(cerr)].Number = n

\* C13: isMySQLErrCantWrite is true exactly for the errors carrying 1290,
\* 1142, 1143 or 1370 and isMySQLErrDupEntry exactly for those carrying
\* 1062; both are false for nil, for an error without a storage code and
\* for any other number, and never both true.
ClassifierMapping ==
  cls.called =>
    /\ cls.cantWrite <=> (Carries(1290) \/ Carries(1142) \/ Carries(1143) \/ Carries(1370))
    /\ cls.dupEntry <=> Carries(1062)
    /\ ~(cls.cantWrite /\ cls.dupEntry)
    /\ (cerr = <<>> \/ cerr[Len(cerr)].type # "MySQLError") =>
         ~cls.cantWrite /\ ~cls.dupEntry

\* a wrapped error of number 1370 was classified as write-rejected
ClassifierMappingWitness ==
  /\ cls.called
  /\ Len(cerr) > 1 /\ Carries(1370)
  /\ cls.cantWrite /\ ~cls.dupEntry

====
